---------------------------- MODULE Spec2Model ----------------------------
(***************************************************************************)
(* A model of code_cnt: the comment-aware line classifier and file counter *)
(* of logic/analysis.rs, the language registry of registry.rs, the earlier *)
(* count_lines of main.rs and the event loop of ui/model.rs.               *)
(*                                                                         *)
(* Strings are sequences of bytes.  A byte is one of the strings " " (any  *)
(* white space), "c" (an ordinary one-byte character), "/", "*", and the   *)
(* two bytes "C3" "A9" of one two-byte UTF-8 character.  Positions are     *)
(* 0-based byte offsets as in the Rust code; a None of the code is -1.     *)
(***************************************************************************)
EXTENDS Integers, Sequences, FiniteSets, TLC

VARIABLES
    cur_comments,   \* the CommentType the classifier is called with
    cur_line,       \* the line handed to is_line_of_code
    inside_block,   \* count_lines' local inside_block (the &mut bool)
    inside_before,  \* inside_block as it was when the last call was made
    verdict,        \* the last call's outcome: none, code, notcode, panic
    pc,             \* where the caller is
    path_kind,      \* what count_lines' path refers to: file, dir, missing
    remaining,      \* lines of the file that BufReader has not yet yielded
    cnt,            \* lines that passed count_lines' filter so far
    shape,          \* what is known of the file's content
    entries,        \* LangRegistry::entries
    map_ext_id,     \* LangRegistry::map_ext_id
    reg_pc,         \* building, idle, walking (inside update_stats), panicked
    claims,         \* per extension, the names that asked for it first
    result,         \* what the last update_stats returned: none, ok, err
    fs,             \* the directory tree: what each path refers to
    listing,        \* the paths a WalkDir traversal of the tree yields
    walk,           \* the paths the running traversal has yet to yield
    passes,         \* update_stats calls made so far
    changed,        \* the tree, or the order it is walked in, has changed
                    \* since the last call started
    prev,           \* the previous call: its outcome, and the stats it left
    cfg_result,     \* what with_config returned: none, ok, or the ConfigError
    last_call,      \* the language with_config handled last, and how
    running_state,  \* Model::run's local model.running_state
    self_state,     \* running_state of the Model that run was called on
    state_before,   \* model.running_state when the last turn of the loop began
    ui_event,       \* what the last turn's handle_event polled and read
    current_msg,    \* Model::run's current_msg, an Option<Message>
    ui_turns,       \* turns of the event loop made so far
    ui_pc           \* where Model::run is

classifyVars == <<cur_comments, cur_line, inside_block, inside_before,
                  verdict, pc>>
countVars == <<path_kind, remaining, cnt, shape>>
regVars == <<entries, map_ext_id, claims, reg_pc, result>>
treeVars == <<fs, listing, walk, passes, changed, prev>>
cfgVars == <<cfg_result, last_call>>
uiVars == <<running_state, self_state, state_before, ui_event, current_msg,
            ui_turns, ui_pc>>
vars == <<classifyVars, countVars, regVars, treeVars, cfgVars, uiVars>>

\* no event polled yet
NoEvent == [event |-> "unset", kind |-> "none", code |-> "none"]

\* Model::run has not been called
idleUi ==
    /\ running_state = "unset" /\ self_state = "Running"
    /\ state_before = "unset" /\ ui_event = NoEvent /\ current_msg = <<>>
    /\ ui_turns = 0 /\ ui_pc = "unused"

(***************************************************************************)
(* Bounds of the model.                                                    *)
(***************************************************************************)
\* characters of a line classified with any of CommentSpecs
MaxLineChars == 5
\* characters of a line classified with the C comment tokens
MaxCLineChars == 6
\* characters of a line of a file that count_lines reads
MaxFileLineChars == 3
\* lines of a file that count_lines reads
MaxFileLines == 3
\* characters of a line of a file that holds one block comment
MaxBlockLineChars == 4
\* characters of an all-ASCII line classified with the C comment tokens
MaxAsciiLineChars == 8
\* paths one traversal yields
MaxWalk == 2
\* update_stats calls on one registry
MaxPasses == 2
\* languages in one configuration
MaxLanguages == 3

\* The characters a line is made of: four one-byte characters and one
\* two-byte character (lead byte C3, continuation byte A9).
Chars == { <<" ">>, <<"c">>, <<"/">>, <<"*">>, <<"C3", "A9">> }

RECURSIVE StrsUpTo(_)
StrsUpTo(n) ==
    IF n = 0 THEN { <<>> }
    ELSE LET S == StrsUpTo(n - 1)
         IN  S \cup { s \o ch : s \in S, ch \in Chars }

\* The one-byte characters.
AsciiChars == { <<" ">>, <<"c">>, <<"/">>, <<"*">> }

RECURSIVE AsciiStrsUpTo(_)
AsciiStrsUpTo(n) ==
    IF n = 0 THEN { <<>> }
    ELSE LET S == AsciiStrsUpTo(n - 1)
         IN  S \cup { s \o ch : s \in S, ch \in AsciiChars }

\* Every valid UTF-8 line of at most MaxLineChars characters.
Lines == StrsUpTo(MaxLineChars)
AsciiLines == AsciiStrsUpTo(MaxAsciiLineChars)
CLines == StrsUpTo(MaxCLineChars)
FileLines == StrsUpTo(MaxFileLineChars)
\* lines of the kinds the tests of count_lines write: blank, code, a line
\* comment, a block comment opened, closed, whole, with code after it, and
\* a line with a two-byte character
SampleLines ==
    { <<>>, <<"c">>, <<" ", "c">>, <<"/", "/", "c">>, <<"/", "*", "c">>,
      <<"c", "*", "/">>, <<"/", "*", "c", "*", "/">>,
      <<"/", "*", "c", "*", "/", "c">>, <<"C3", "A9">> }
BlockLines == StrsUpTo(MaxBlockLineChars)

(***************************************************************************)
(* str primitives of the Rust standard library, as the code uses them.     *)
(***************************************************************************)
IsWhitespace(b) == b = " "

\* s.is_char_boundary(i)
IsCharBoundary(s, i) ==
    \/ i = 0
    \/ i = Len(s)
    \/ (i > 0 /\ i < Len(s) /\ s[i + 1] # "A9")

\* &s[start..], defined when start is a char boundary
Slice(s, start) == SubSeq(s, start + 1, Len(s))

\* s.starts_with(t)
StartsWith(s, t) == Len(t) <= Len(s) /\ SubSeq(s, 1, Len(t)) = t

\* s.trim_start()
RECURSIVE TrimStart(_)
TrimStart(s) ==
    IF s # <<>> /\ IsWhitespace(Head(s)) THEN TrimStart(Tail(s)) ELSE s

\* s.trim_end()
RECURSIVE TrimEnd(_)
TrimEnd(s) ==
    IF s # <<>> /\ IsWhitespace(s[Len(s)])
    THEN TrimEnd(SubSeq(s, 1, Len(s) - 1))
    ELSE s

\* s.trim()
Trim(s) == TrimEnd(TrimStart(s))

\* s.find(t): the byte offset of the first occurrence of t, -1 for None
Find(s, t) ==
    LET hits == { i \in 0..Len(s) : StartsWith(Slice(s, i), t) }
    IN  IF hits = {} THEN -1
        ELSE CHOOSE i \in hits : \A j \in hits : i <= j

(***************************************************************************)
(* Position-wise predicates on a line, used to say what a file or a line   *)
(* holds (never by the operators that model the code).                     *)
(***************************************************************************)
IsBlank(l) == \A i \in 1..Len(l) : l[i] = " "

IsAscii(l) == \A i \in 1..Len(l) : l[i] \notin {"C3", "A9"}

\* token t stands in l at (1-based) position i
At(l, i, t) == \A k \in 1..Len(t) : i + k - 1 <= Len(l) /\ l[i + k - 1] = t[k]

Contains(l, t) == \E i \in 1..Len(l) : At(l, i, t)

(***************************************************************************)
(* Comment types (registry.rs: CommentType, Block).  A CommentType is a    *)
(* record [line: sequence of tokens, block: NoBlock or [open, close]].     *)
(***************************************************************************)
NoBlock == [none |-> TRUE]

HasBlock(comment_type) == comment_type.block # NoBlock

\* C as with_builtins_langs registers it: // and /* */
CComments == [line |-> << <<"/", "/">> >>,
              block |-> [open |-> <<"/", "*">>, close |-> <<"*", "/">>]]

\* Rust as with_builtins_langs registers it: //, ///, //! and /* */
RustComments == [line |-> << <<"/", "/">>, <<"/", "/", "/">>,
                             <<"/", "/", "!">> >>,
                 block |-> [open |-> <<"/", "*">>, close |-> <<"*", "/">>]]

\* Line comments only (as the Python entry of the add_entry_ok test)
LineOnlyComments == [line |-> << <<"/", "/">> >>, block |-> NoBlock]

\* Line comments only, several unrelated prefixes (as the
\* is_single_line_comment tests: %, #, //)
ManyLineComments == [line |-> << <<"*">>, <<"c", "/">>, <<"/", "/">> >>,
                     block |-> NoBlock]

\* A line prefix that is also how the block open token starts (as Lua's
\* -- and --[[ ]], or Julia's # and #= =#)
PrefixOpenComments == [line |-> << <<"/">> >>,
                       block |-> [open |-> <<"/", "*">>,
                                  close |-> <<"*", "/">>]]

\* The same token opens and closes a block (as Python's triple quotes)
SameTokenComments == [line |-> << <<"/", "/">> >>,
                      block |-> [open |-> <<"*">>, close |-> <<"*">>]]

\* The comment types the classifier is exercised with.
CommentSpecs == { CComments, RustComments, LineOnlyComments,
                  ManyLineComments, PrefixOpenComments, SameTokenComments }

(***************************************************************************)
(* logic/analysis.rs                                                       *)
(***************************************************************************)
\* is_single_line_comment as it would be if only the first prefix of the
\* list were tried
is_single_line_comment_first_only(line, line_comment) ==
    /\ Len(line_comment) >= 1
    /\ StartsWith(TrimStart(line), line_comment[1])

is_single_line_comment(line, line_comment) ==
    \E i \in 1..Len(line_comment) :
        StartsWith(TrimStart(line), line_comment[i])

\* one more turn of the while loop was taken
Turn(r) == [r EXCEPT !.steps = @ + 1]

\* the while loop as it would be if an open token met outside a block
\* were entered on one turn and passed on the next
RECURSIVE ScanLoop_open_in_two_turns(_, _, _, _, _)
ScanLoop_open_in_two_turns(trimmed, start, inside, code_present, comment_type) ==
    IF ~(start < Len(trimmed))
    THEN [comment |-> ~code_present, inside |-> inside, panic |-> FALSE,
          steps |-> 0]
    ELSE IF ~IsCharBoundary(trimmed, start)
    THEN [comment |-> FALSE, inside |-> inside, panic |-> TRUE,
          steps |-> 1]
    ELSE LET rest  == Slice(trimmed, start)
             open  == comment_type.block.open
             close == comment_type.block.close
         IN  IF StartsWith(rest, open)
             THEN Turn(ScanLoop_open_in_two_turns(
                           trimmed,
                           IF inside THEN start + Len(open) ELSE start,
                           TRUE, code_present, comment_type))
             ELSE IF StartsWith(rest, close)
             THEN Turn(ScanLoop_open_in_two_turns(
                           trimmed, start + Len(close), FALSE,
                           code_present, comment_type))
             ELSE IF ~inside
             THEN IF is_single_line_comment(rest, comment_type.line)
                  THEN [comment |-> ~code_present, inside |-> inside,
                        panic |-> FALSE, steps |-> 1]
                  ELSE Turn(ScanLoop_open_in_two_turns(
                                trimmed, start + 1, inside, TRUE,
                                comment_type))
             ELSE Turn(ScanLoop_open_in_two_turns(
                           trimmed, start + 1, inside, code_present,
                           comment_type))

\* The while loop of is_block_comment.  The result is the function's
\* return value (comment), the value left in *is_inside_block (inside),
\* whether slicing panicked on a byte that is no char boundary, and the
\* number of turns of the loop that were entered (steps).
RECURSIVE ScanLoop(_, _, _, _, _)
ScanLoop(trimmed, start, inside, code_present, comment_type) ==
    IF ~(start < Len(trimmed))
    THEN [comment |-> ~code_present, inside |-> inside, panic |-> FALSE,
          steps |-> 0]
    ELSE IF ~IsCharBoundary(trimmed, start)
    THEN [comment |-> FALSE, inside |-> inside, panic |-> TRUE,
          steps |-> 1]
    ELSE LET rest  == Slice(trimmed, start)
             open  == comment_type.block.open
             close == comment_type.block.close
         IN  IF StartsWith(rest, open)
             THEN Turn(ScanLoop(trimmed, start + Len(open), TRUE,
                                code_present, comment_type))
             ELSE IF StartsWith(rest, close)
             THEN Turn(ScanLoop(trimmed, start + Len(close), FALSE,
                                code_present, comment_type))
             ELSE IF ~inside
             THEN IF is_single_line_comment(rest, comment_type.line)
                  THEN [comment |-> ~code_present, inside |-> inside,
                        panic |-> FALSE, steps |-> 1]
                  ELSE Turn(ScanLoop(trimmed, start + 1, inside, TRUE,
                                     comment_type))
             ELSE Turn(ScanLoop(trimmed, start + 1, inside, code_present,
                                comment_type))

is_block_comment(line, is_inside_block, comment_type) ==
    LET trimmed == Trim(line)
    IN  IF ~HasBlock(comment_type)
        THEN [comment |-> FALSE, inside |-> is_inside_block, panic |-> FALSE,
              steps |-> 0]
        ELSE IF is_inside_block
        THEN LET idx == Find(trimmed, comment_type.block.close)
             IN  IF idx # -1
                 THEN ScanLoop(trimmed, idx + Len(comment_type.block.close),
                               FALSE, FALSE, comment_type)
                 ELSE [comment |-> TRUE, inside |-> TRUE, panic |-> FALSE,
                       steps |-> 0]
        ELSE ScanLoop(trimmed, 0, FALSE, FALSE, comment_type)

\* is_line_of_code as it would be without the test for a blank line
is_line_of_code_no_blank_test(line, is_inside_block, comment_type) ==
    IF is_single_line_comment(line, comment_type.line)
    THEN [code |-> FALSE, inside |-> is_inside_block, panic |-> FALSE]
    ELSE LET b == is_block_comment(line, is_inside_block, comment_type)
         IN  [code |-> ~b.panic /\ ~b.comment, inside |-> b.inside,
              panic |-> b.panic]

\* The result is the return value (code), the value left in
\* *is_inside_block (inside) and whether the call panicked.
is_line_of_code(line, is_inside_block, comment_type) ==
    IF Trim(line) = <<>>
    THEN [code |-> FALSE, inside |-> is_inside_block, panic |-> FALSE]
    ELSE IF is_single_line_comment(line, comment_type.line)
    THEN [code |-> FALSE, inside |-> is_inside_block, panic |-> FALSE]
    ELSE LET b == is_block_comment(line, is_inside_block, comment_type)
         IN  [code |-> ~b.panic /\ ~b.comment, inside |-> b.inside,
              panic |-> b.panic]

(***************************************************************************)
(* One call of is_line_of_code, as the unit tests of analysis.rs and        *)
(* count_lines make it: any comment type, any line, either carried state.   *)
(***************************************************************************)
VerdictOf(r) ==
    IF r.panic THEN "panic" ELSE IF r.code THEN "code" ELSE "notcode"

InitClassify ==
    /\ cur_comments \in CommentSpecs
    /\ cur_line \in Lines
    /\ inside_block \in BOOLEAN
    /\ inside_before = inside_block
    /\ verdict = "none"
    /\ pc = "call"
    /\ path_kind = "file" /\ remaining = 0 /\ cnt = 0 /\ shape = "any"
    /\ entries = <<>> /\ map_ext_id = <<>> /\ claims = <<>>
    /\ reg_pc = "unused"
    /\ result = "none" /\ fs = <<>> /\ listing = <<>> /\ walk = <<>>
    /\ passes = 0 /\ changed = FALSE /\ prev = <<>>
    /\ cfg_result = "none" /\ last_call = <<>>
    /\ idleUi

InitClassifyC ==
    /\ cur_comments = CComments
    /\ cur_line \in CLines
    /\ inside_block \in BOOLEAN
    /\ inside_before = inside_block
    /\ verdict = "none"
    /\ pc = "call"
    /\ path_kind = "file" /\ remaining = 0 /\ cnt = 0 /\ shape = "any"
    /\ entries = <<>> /\ map_ext_id = <<>> /\ claims = <<>>
    /\ reg_pc = "unused"
    /\ result = "none" /\ fs = <<>> /\ listing = <<>> /\ walk = <<>>
    /\ passes = 0 /\ changed = FALSE /\ prev = <<>>
    /\ cfg_result = "none" /\ last_call = <<>>
    /\ idleUi

InitClassifyAscii ==
    /\ cur_comments = CComments
    /\ cur_line \in AsciiLines
    /\ inside_block \in BOOLEAN
    /\ inside_before = inside_block
    /\ verdict = "none"
    /\ pc = "call"
    /\ path_kind = "file" /\ remaining = 0 /\ cnt = 0 /\ shape = "any"
    /\ entries = <<>> /\ map_ext_id = <<>> /\ claims = <<>>
    /\ reg_pc = "unused"
    /\ result = "none" /\ fs = <<>> /\ listing = <<>> /\ walk = <<>>
    /\ passes = 0 /\ changed = FALSE /\ prev = <<>>
    /\ cfg_result = "none" /\ last_call = <<>>
    /\ idleUi

Classify ==
    /\ pc = "call"
    /\ LET r == is_line_of_code(cur_line, inside_block, cur_comments)
       IN  /\ verdict' = VerdictOf(r)
           /\ inside_block' = r.inside
    /\ inside_before' = inside_block
    /\ pc' = "returned"
    /\ UNCHANGED <<cur_comments, cur_line>>
    /\ UNCHANGED <<countVars, regVars, treeVars, cfgVars, uiVars>>

NextClassify == Classify

SpecClassify == InitClassify /\ [][NextClassify]_vars

SpecClassifyC == InitClassifyC /\ [][NextClassify]_vars

SpecClassifyAscii == InitClassifyAscii /\ [][NextClassify]_vars

(***************************************************************************)
(* count_lines, one line of the file at a time.  The file's lines are an   *)
(* input: each ReadLine step takes any line that fits what is known of    *)
(* the file (shape).  A file of shape "any" holds any lines; the shapes    *)
(* block_start, block_open, block_closed describe a file that holds one    *)
(* block comment and nothing else (the block_multi_line_no_code and        *)
(* block_comments_single_line_no_code fixtures, for any tokens): the open  *)
(* token, text without the close token, the close token.                   *)
(***************************************************************************)
PathKinds == {"file", "dir", "missing", "unreadable"}

NoCloseFrom(l, from, upto, ct) ==
    \A i \in from..upto : ~At(l, i, ct.block.close)

\* the first line of a block comment that goes on: open token, text
OpensBlock(l, ct) ==
    /\ At(l, 1, ct.block.open)
    /\ NoCloseFrom(l, Len(ct.block.open) + 1, Len(l), ct)

\* a line in the middle of a block comment: text
ContinuesBlock(l, ct) == NoCloseFrom(l, 1, Len(l), ct)

\* the last line of a block comment: text, close token
ClosesBlock(l, ct) ==
    /\ Len(l) >= Len(ct.block.close)
    /\ At(l, Len(l) - Len(ct.block.close) + 1, ct.block.close)
    /\ NoCloseFrom(l, 1, Len(l) - Len(ct.block.close), ct)

\* a block comment on one line: open token, text, close token
WholeBlock(l, ct) ==
    /\ Len(l) >= Len(ct.block.open) + Len(ct.block.close)
    /\ At(l, 1, ct.block.open)
    /\ At(l, Len(l) - Len(ct.block.close) + 1, ct.block.close)
    /\ NoCloseFrom(l, Len(ct.block.open) + 1,
                   Len(l) - Len(ct.block.close), ct)

\* l can be the next line of a file of shape sh with rem lines left
LineFits(sh, l, ct, rem) ==
    CASE sh \in {"any", "sample"} -> TRUE
      [] sh = "block_start" ->
            IF rem = 1 THEN WholeBlock(l, ct) ELSE OpensBlock(l, ct)
      [] sh = "block_open" ->
            IF rem = 1 THEN ClosesBlock(l, ct) ELSE ContinuesBlock(l, ct)
      [] OTHER -> FALSE

\* the lines a file of shape sh is drawn from
LinesOfShape(sh) ==
    IF sh = "any" THEN FileLines
    ELSE IF sh = "sample" THEN SampleLines
    ELSE BlockLines

ShapeAfter(sh, rem) ==
    IF sh \in {"any", "sample"} THEN sh
    ELSE IF rem = 1 THEN "block_closed" ELSE "block_open"

\* count_lines up to the iterator chain: the is_file test, the local
\* inside_block, File::open.
CountStart ==
    /\ pc = "start"
    /\ IF path_kind \notin {"file", "unreadable"}
       THEN /\ pc' = "failed"              \* Err(NotFound)
            /\ UNCHANGED <<inside_block, cnt>>
       ELSE IF path_kind = "unreadable"
       THEN /\ pc' = "failed"              \* File::open(path)?
            /\ inside_block' = FALSE
            /\ UNCHANGED cnt
       ELSE /\ pc' = "reading"
            /\ inside_block' = FALSE
            /\ cnt' = 0
    /\ UNCHANGED <<cur_comments, cur_line, inside_before, verdict,
                   path_kind, remaining, shape>>
    /\ UNCHANGED <<regVars, treeVars, cfgVars, uiVars>>

\* the step below as it would be if count counted every line that lines()
\* yields
ReadLine_counts_every_line ==
    /\ pc = "reading"
    /\ remaining > 0
    /\ \E l \in LinesOfShape(shape) :
          /\ LineFits(shape, l, cur_comments, remaining)
          /\ LET r == is_line_of_code(l, inside_block, cur_comments)
             IN  /\ cur_line' = l
                 /\ verdict' = VerdictOf(r)
                 /\ inside_block' = r.inside
                 /\ cnt' = cnt + 1
                 /\ pc' = IF r.panic THEN "panicked" ELSE "reading"
    /\ inside_before' = inside_block
    /\ remaining' = remaining - 1
    /\ shape' = ShapeAfter(shape, remaining)
    /\ UNCHANGED <<cur_comments, path_kind>>
    /\ UNCHANGED <<regVars, treeVars, cfgVars, uiVars>>

\* lines() yields Ok(line): map_while passes it on, filter classifies it
\* and count counts it when it is code.
ReadLine ==
    /\ pc = "reading"
    /\ remaining > 0
    /\ \E l \in LinesOfShape(shape) :
          /\ LineFits(shape, l, cur_comments, remaining)
          /\ LET r == is_line_of_code(l, inside_block, cur_comments)
             IN  /\ cur_line' = l
                 /\ verdict' = VerdictOf(r)
                 /\ inside_block' = r.inside
                 /\ cnt' = IF r.code THEN cnt + 1 ELSE cnt
                 /\ pc' = IF r.panic THEN "panicked" ELSE "reading"
    /\ inside_before' = inside_block
    /\ remaining' = remaining - 1
    /\ shape' = ShapeAfter(shape, remaining)
    /\ UNCHANGED <<cur_comments, path_kind>>
    /\ UNCHANGED <<regVars, treeVars, cfgVars, uiVars>>

\* lines() yields Err (the line is not valid UTF-8): map_while(Result::ok)
\* ends the iteration there, count returns what was counted so far.
ReadUndecodable ==
    /\ pc = "reading"
    /\ remaining > 0
    /\ shape \in {"any", "sample"}
    /\ remaining' = remaining - 1
    /\ pc' = "done"
    /\ UNCHANGED <<cur_comments, cur_line, inside_block, inside_before,
                   verdict, path_kind, cnt, shape>>
    /\ UNCHANGED <<regVars, treeVars, cfgVars, uiVars>>

\* lines() yields None: Ok(cnt)
ReadEof ==
    /\ pc = "reading"
    /\ remaining = 0
    /\ pc' = "done"
    /\ UNCHANGED <<cur_comments, cur_line, inside_block, inside_before,
                   verdict, path_kind, remaining, cnt, shape>>
    /\ UNCHANGED <<regVars, treeVars, cfgVars, uiVars>>

InitCount ==
    /\ cur_comments \in CommentSpecs
    /\ path_kind \in PathKinds
    /\ remaining \in 0..MaxFileLines
    /\ shape = "any"
    /\ cur_line = <<>>
    /\ inside_block = FALSE
    /\ inside_before = FALSE
    /\ verdict = "none"
    /\ cnt = 0
    /\ pc = "start"
    /\ entries = <<>> /\ map_ext_id = <<>> /\ claims = <<>>
    /\ reg_pc = "unused"
    /\ result = "none" /\ fs = <<>> /\ listing = <<>> /\ walk = <<>>
    /\ passes = 0 /\ changed = FALSE /\ prev = <<>>
    /\ cfg_result = "none" /\ last_call = <<>>
    /\ idleUi

\* a file that holds one block comment on 1..MaxFileLines lines
InitBlockFile ==
    /\ cur_comments \in { ct \in CommentSpecs : HasBlock(ct) }
    /\ path_kind = "file"
    /\ remaining \in 1..MaxFileLines
    /\ shape = "block_start"
    /\ cur_line = <<>>
    /\ inside_block = FALSE
    /\ inside_before = FALSE
    /\ verdict = "none"
    /\ cnt = 0
    /\ pc = "start"
    /\ entries = <<>> /\ map_ext_id = <<>> /\ claims = <<>>
    /\ reg_pc = "unused"
    /\ result = "none" /\ fs = <<>> /\ listing = <<>> /\ walk = <<>>
    /\ passes = 0 /\ changed = FALSE /\ prev = <<>>
    /\ cfg_result = "none" /\ last_call = <<>>
    /\ idleUi

\* a file of 0..MaxFileLines lines of the sample
InitCountSample ==
    /\ cur_comments \in CommentSpecs
    /\ path_kind \in PathKinds
    /\ remaining \in 0..MaxFileLines
    /\ shape = "sample"
    /\ cur_line = <<>>
    /\ inside_block = FALSE
    /\ inside_before = FALSE
    /\ verdict = "none"
    /\ cnt = 0
    /\ pc = "start"
    /\ entries = <<>> /\ map_ext_id = <<>> /\ claims = <<>>
    /\ reg_pc = "unused"
    /\ result = "none" /\ fs = <<>> /\ listing = <<>> /\ walk = <<>>
    /\ passes = 0 /\ changed = FALSE /\ prev = <<>>
    /\ cfg_result = "none" /\ last_call = <<>>
    /\ idleUi

NextCount == CountStart \/ ReadLine \/ ReadUndecodable \/ ReadEof

NextBlockFile == CountStart \/ ReadLine \/ ReadEof

SpecCount == InitCount /\ [][NextCount]_vars

SpecBlockFile == InitBlockFile /\ [][NextBlockFile]_vars

SpecCountSample == InitCountSample /\ [][NextCount]_vars

(***************************************************************************)
(* The registry (registry.rs): entries in registration order, the map from *)
(* extension to LangId, and update_stats over a directory tree.  A LangId  *)
(* is the 0-based index registry.rs uses: LangId(k) is entries[k + 1].     *)
(***************************************************************************)
LangSpec(name, extensions, comments) ==
    [name |-> name, extensions |-> extensions, comments |-> comments]

EmptyStats == [files |-> {}, loc |-> 0]

\* the two languages with_builtins_langs registers
RustSpec == LangSpec("Rust", <<"rs">>, RustComments)
CSpec == LangSpec("C", <<"c", "h">>, CComments)

\* languages a configuration can list besides: one that claims h alone,
\* one that claims txt and then h, one that claims txt alone
HeaderSpec == LangSpec("Header", <<"h">>, LineOnlyComments)
NotesSpec == LangSpec("Notes", <<"txt", "h">>, LineOnlyComments)
TextSpec == LangSpec("Text", <<"txt">>, ManyLineComments)
\* one that lists an extension twice
TwiceSpec == LangSpec("Twice", <<"md", "md">>, LineOnlyComments)
LangSpecs == { RustSpec, CSpec, HeaderSpec, NotesSpec, TextSpec, TwiceSpec }

\* the loop of add_entry from extension i on: a vacant extension is mapped
\* to id, an occupied one returns the error at once
RECURSIVE AddExtensions(_, _, _, _)
AddExtensions(map, extensions, i, id) ==
    IF i > Len(extensions)
    THEN [map |-> map, ok |-> TRUE]
    ELSE IF extensions[i] \in DOMAIN map
    THEN [map |-> map, ok |-> FALSE]
    ELSE AddExtensions(map @@ (extensions[i] :> id), extensions, i + 1, id)

\* add_entry: the registry it leaves and whether it returned Ok
add_entry(es, map, spec, stats) ==
    LET r == AddExtensions(map, spec.extensions, 1, Len(es))
    IN  [entries |-> IF r.ok
                     THEN Append(es, [spec |-> spec, stats |-> stats])
                     ELSE es,
         map_ext_id |-> r.map,
         ok |-> r.ok]

\* directories a registry can be rooted at
Dirs == { ".", "src" }

\* with_builtins_langs as it would be if C were registered before Rust
with_builtins_langs_c_first(dir) ==
    LET r1 == add_entry(<<>>, <<>>, CSpec, EmptyStats)
        r2 == add_entry(r1.entries, r1.map_ext_id, RustSpec, EmptyStats)
    IN  [dir |-> dir, entries |-> r2.entries, map_ext_id |-> r2.map_ext_id,
         printed |-> (IF r1.ok THEN 0 ELSE 1) + (IF r2.ok THEN 0 ELSE 1)]

\* with_builtins_langs: Rust, then C, on the empty registry; printed is
\* the number of conflicts the two match arms printed
with_builtins_langs(dir) ==
    LET r1 == add_entry(<<>>, <<>>, RustSpec, EmptyStats)
        r2 == add_entry(r1.entries, r1.map_ext_id, CSpec, EmptyStats)
    IN  [dir |-> dir, entries |-> r2.entries, map_ext_id |-> r2.map_ext_id,
         printed |-> (IF r1.ok THEN 0 ELSE 1) + (IF r2.ok THEN 0 ELSE 1)]

\* the extension in lower case, for the extensions the trees below hold
to_lowercase(ext) == IF ext = "RS" THEN "rs" ELSE ext

\* get_entry_id as it would be if the index were looked up without regard
\* to case
get_entry_id_any_case(map, ext) ==
    IF to_lowercase(ext) \in DOMAIN map THEN map[to_lowercase(ext)] ELSE -1

\* get_entry_id: -1 stands for None
get_entry_id(map, ext) == IF ext \in DOMAIN map THEN map[ext] ELSE -1

\* clear_locs as it would be if it left the counts alone
clear_locs_keeps(es) == es

clear_locs(es) ==
    [k \in 1..Len(es) |-> [es[k] EXCEPT !.stats.loc = 0]]

\* clear_paths as it would be if it dropped the entries that hold files
clear_paths_drops_entries(es) ==
    SelectSeq(es, LAMBDA entry : entry.stats.files = {})

\* clear_paths as it would be if it left the file sets alone
clear_paths_keeps(es) == es

clear_paths(es) ==
    [k \in 1..Len(es) |-> [es[k] EXCEPT !.stats.files = {}]]

StatsOf(es) == [k \in 1..Len(es) |-> es[k].stats]

(***************************************************************************)
(* The configuration (config_reader.rs) and its conversion into registry   *)
(* types.  An Option is a sequence of at most one element: None is <<>>,   *)
(* Some(x) is <<x>>; the empty string and the empty Vec are <<>>.          *)
(***************************************************************************)
Ok(val) == [ok |-> TRUE, val |-> val, err |-> "none"]
Err(err) == [ok |-> FALSE, val |-> <<>>, err |-> err]

\* impl TryFrom<CfgBlock> for Block
Block_try_from(cfg_block) ==
    IF cfg_block.open = <<>> \/ cfg_block.open[1] = <<>>
    THEN Err("InvalidBlockComment")
    ELSE IF cfg_block.close = <<>> \/ cfg_block.close[1] = <<>>
    THEN Err("InvalidBlockComment")
    ELSE Ok([open |-> cfg_block.open[1], close |-> cfg_block.close[1]])

\* the conversion of a comments table as it would be with the block table
\* looked at before the line list
CommentType_try_from_block_first(comment) ==
    LET block == IF comment.block = <<>>
                 THEN Ok(NoBlock)
                 ELSE Block_try_from(comment.block[1])
    IN  IF ~block.ok
        THEN Err(block.err)
        ELSE IF comment.line = <<>> \/ comment.line[1] = <<>>
        THEN Err("LineCommentMissing")
        ELSE Ok([line |-> comment.line[1], block |-> block.val])

\* impl TryFrom<CfgCommentType> for CommentType
CommentType_try_from(comment) ==
    IF comment.line = <<>> \/ comment.line[1] = <<>>
    THEN Err("LineCommentMissing")
    ELSE IF comment.block = <<>>
    THEN Ok([line |-> comment.line[1], block |-> NoBlock])
    ELSE LET block == Block_try_from(comment.block[1])
         IN  IF ~block.ok
             THEN Err(block.err)
             ELSE Ok([line |-> comment.line[1], block |-> block.val])

\* the conversion of a language as it would be with the extensions looked
\* at before the name
LangEntry_try_from_extensions_first(cfg_lang) ==
    IF cfg_lang.extensions = <<>> \/ cfg_lang.extensions[1] = <<>>
    THEN Err("ExtensionMissing")
    ELSE IF cfg_lang.name = <<>>
    THEN Err("LanguageNameMissing")
    ELSE IF cfg_lang.comments = <<>>
    THEN Err("CommentsMissing")
    ELSE LET comments == CommentType_try_from(cfg_lang.comments[1])
         IN  IF ~comments.ok
             THEN Err(comments.err)
             ELSE Ok([spec |-> LangSpec(cfg_lang.name[1],
                                        cfg_lang.extensions[1],
                                        comments.val),
                      stats |-> EmptyStats])

\* impl TryFrom<CfgLangEntry> for LangEntry
LangEntry_try_from(cfg_lang) ==
    IF cfg_lang.name = <<>>
    THEN Err("LanguageNameMissing")
    ELSE IF cfg_lang.extensions = <<>> \/ cfg_lang.extensions[1] = <<>>
    THEN Err("ExtensionMissing")
    ELSE IF cfg_lang.comments = <<>>
    THEN Err("CommentsMissing")
    ELSE LET comments == CommentType_try_from(cfg_lang.comments[1])
         IN  IF ~comments.ok
             THEN Err(comments.err)
             ELSE Ok([spec |-> LangSpec(cfg_lang.name[1],
                                        cfg_lang.extensions[1],
                                        comments.val),
                      stats |-> EmptyStats])

\* the CfgLangEntry a configuration file holds for a language
CfgOf(spec) ==
    [name |-> <<spec.name>>,
     extensions |-> <<spec.extensions>>,
     comments |-> << [line |-> <<spec.comments.line>>,
                      block |-> IF HasBlock(spec.comments)
                                THEN << [open |-> <<spec.comments.block.open>>,
                                         close |->
                                           <<spec.comments.block.close>>] >>
                                ELSE <<>>] >>]

\* what a [languages.comments.block] table can hold: each key absent, the
\* empty string, or a token
CfgTokens(token) == { <<>>, << <<>> >>, <<token>> }
CfgBlocks ==
    { <<>> } \cup
    { << [open |-> o, close |-> c] >> :
        o \in CfgTokens(<<"/", "*">>), c \in CfgTokens(<<"*", "/">>) }

\* what the line key can hold: absent, [], a prefix, the empty string as a
\* prefix
CfgLines ==
    { <<>>, << <<>> >>, << << <<"/", "/">> >> >>, << << <<>> >> >> }

CfgComments ==
    { <<>> } \cup
    { << [line |-> l, block |-> b] >> : l \in CfgLines, b \in CfgBlocks }

\* the [[languages]] tables a configuration can hold: those of LangSpecs,
\* and one language with each key absent, empty or set
CfgLangs ==
    { CfgOf(spec) : spec \in LangSpecs } \cup
    [name : { <<>>, <<"Python">> },
     extensions : { <<>>, << <<>> >>, << <<"py">> >> },
     comments : CfgComments]

\* The tree under dir: three paths, each a regular file, a regular file
\* that cannot be opened, a directory, or nothing.
Paths == { "a.c", "b.h", "n.txt" }
Kinds == { "file", "unreadable", "dir", "absent" }

\* paths whose extension is registered, written in another case, not
\* registered, or missing
ExtPaths == { "m.rs", "A.RS", "d.md", "Makefile" }

\* Path::extension: <<>> stands for None
extension(path) ==
    CASE path = "a.c" -> <<"c">>
      [] path = "b.h" -> <<"h">>
      [] path = "n.txt" -> <<"txt">>
      [] path = "m.rs" -> <<"rs">>
      [] path = "A.RS" -> <<"RS">>
      [] path = "d.md" -> <<"md">>
      [] path = "Makefile" -> <<>>

\* path.extension().and_then(|ext| self.get_entry_id(ext))
entry_id_of(map, path) ==
    IF extension(path) = <<>> THEN -1
    ELSE get_entry_id(map, extension(path)[1])

\* what the lines of each file are while it is a file
FileContent(path) ==
    CASE path = "a.c" -> << <<"c">>, <<"/", "/", "c">> >>
      [] path = "b.h" -> << <<"c">>, <<"/", "*", "c">>, <<"c">> >>
      [] path = "n.txt" -> << <<"c">>, <<"c">> >>
      [] path = "m.rs" -> << <<"c">>, <<"/", "/", "c">>, <<"c">> >>
      [] path = "A.RS" -> << <<"c">> >>
      [] path = "d.md" -> << <<"c">>, <<"c">> >>
      [] path = "Makefile" -> << <<"c">> >>

\* Path::is_file
is_file(kind) == kind \in {"file", "unreadable"}

\* the line decodes as UTF-8
Decodes(l) == \A i \in 1..Len(l) : l[i] # "FF"

\* the iterator chain of count_lines from line i on
RECURSIVE CountFrom(_, _, _, _, _)
CountFrom(lines, i, inside, count, comment_type) ==
    IF i > Len(lines) \/ ~Decodes(lines[i])
    THEN [ok |-> TRUE, panic |-> FALSE, val |-> count]
    ELSE LET r == is_line_of_code(lines[i], inside, comment_type)
         IN  IF r.panic
             THEN [ok |-> FALSE, panic |-> TRUE, val |-> 0]
             ELSE CountFrom(lines, i + 1, r.inside,
                            IF r.code THEN count + 1 ELSE count,
                            comment_type)

\* count_lines on a path of the given kind and content
count_lines(kind, lines, comment_type) ==
    IF kind # "file"
    THEN [ok |-> FALSE, panic |-> FALSE, val |-> 0]
    ELSE CountFrom(lines, 1, FALSE, 0, comment_type)

(***************************************************************************)
(* The earlier count_lines of main.rs, for a CommentTypes whose block list *)
(* holds the one pair (open, close) of the comment type.                   *)
(***************************************************************************)
\* the while loop of the filter closure; depth is block_stack.len().  No
\* branch ends with continue, so start += 1 follows every branch.
RECURSIVE main_scan(_, _, _, _, _, _)
main_scan(trimmed, start, inside, depth, code_present, comment_type) ==
    IF ~(start < Len(trimmed))
    THEN [code |-> code_present, inside |-> inside, panic |-> FALSE]
    ELSE IF ~IsCharBoundary(trimmed, start)
    THEN [code |-> FALSE, inside |-> inside, panic |-> TRUE]
    ELSE LET rest  == Slice(trimmed, start)
             open  == comment_type.block.open
             close == comment_type.block.close
         IN  IF StartsWith(rest, open)
             THEN main_scan(trimmed, start + Len(open) + 1, TRUE,
                            depth + 1, code_present, comment_type)
             ELSE IF StartsWith(rest, close)
             THEN main_scan(trimmed, start + Len(close) + 1,
                            IF depth = 1 THEN FALSE ELSE inside,
                            IF depth > 0 THEN depth - 1 ELSE depth,
                            code_present, comment_type)
             ELSE IF ~inside
             THEN IF \E i \in 1..Len(comment_type.line) :
                        StartsWith(Trim(rest), comment_type.line[i])
                  THEN [code |-> code_present, inside |-> inside,
                        panic |-> FALSE]
                  ELSE main_scan(trimmed, start + 1, inside, depth, TRUE,
                                 comment_type)
             ELSE main_scan(trimmed, start + 1, inside, depth,
                            code_present, comment_type)

\* the filter closure on one line: whether the line is kept (code), the
\* value left in inside_block, and whether slicing panicked
main_filter(line, inside_block_in, comment_type) ==
    LET trimmed == Trim(line)
    IN  IF trimmed = <<>>
        THEN [code |-> FALSE, inside |-> inside_block_in, panic |-> FALSE]
        ELSE IF \E i \in 1..Len(comment_type.line) :
                   StartsWith(trimmed, comment_type.line[i])
        THEN [code |-> FALSE, inside |-> inside_block_in, panic |-> FALSE]
        ELSE IF inside_block_in
        THEN LET idx == Find(trimmed, comment_type.block.close)
             IN  IF idx # -1
                 THEN main_scan(trimmed, idx, FALSE, 0, FALSE, comment_type)
                 ELSE [code |-> FALSE, inside |-> TRUE, panic |-> FALSE]
        ELSE main_scan(trimmed, 0, FALSE, 0, FALSE, comment_type)

\* the iterator chain of main.rs's count_lines from line i on
RECURSIVE main_CountFrom(_, _, _, _, _)
main_CountFrom(lines, i, inside, count, comment_type) ==
    IF i > Len(lines) \/ ~Decodes(lines[i])
    THEN [ok |-> TRUE, panic |-> FALSE, val |-> count]
    ELSE LET r == main_filter(lines[i], inside, comment_type)
         IN  IF r.panic
             THEN [ok |-> FALSE, panic |-> TRUE, val |-> 0]
             ELSE main_CountFrom(lines, i + 1, r.inside,
                                 IF r.code THEN count + 1 ELSE count,
                                 comment_type)

\* main.rs's count_lines on a path of the given kind and content
main_count_lines(kind, lines, comment_type) ==
    IF kind # "file"
    THEN [ok |-> FALSE, panic |-> FALSE, val |-> 0]
    ELSE main_CountFrom(lines, 1, FALSE, 0, comment_type)

\* inside_block as the iterator chain of count_lines leaves it after the
\* lines from i on
RECURSIVE InsideAfter(_, _, _, _)
InsideAfter(lines, i, inside, comment_type) ==
    IF i > Len(lines) \/ ~Decodes(lines[i])
    THEN inside
    ELSE InsideAfter(lines, i + 1,
                     is_line_of_code(lines[i], inside, comment_type).inside,
                     comment_type)

\* the file ends inside a block comment that is never closed
EndsInsideBlock(path, comment_type) ==
    InsideAfter(FileContent(path), 1, FALSE, comment_type)

\* the sequences of at most n elements of S
WalksUpTo(S, n) == UNION { [1..k -> S] : k \in 0..n }

\* what a traversal can yield of the tree f: paths that exist
Listings(f) == WalksUpTo({ p \in DOMAIN f : f[p] # "absent" }, MaxWalk)

NoPrev == [ok |-> FALSE, same |-> FALSE, stats |-> <<>>]

\* no language handled yet
NoCall == [made |-> FALSE, nth |-> 0]

idleClassify ==
    /\ cur_comments = CComments /\ cur_line = <<>>
    /\ inside_block = FALSE /\ inside_before = FALSE
    /\ verdict = "none" /\ pc = "unused"
    /\ path_kind = "file" /\ remaining = 0 /\ cnt = 0 /\ shape = "any"

\* LangRegistry::new(), before a tree where every path is a file
Init ==
    /\ idleClassify
    /\ entries = <<>>
    /\ map_ext_id = <<>>
    /\ claims = <<>>
    /\ reg_pc = "building"
    /\ result = "none"
    /\ fs = [p \in Paths |-> "file"]
    /\ listing \in Listings(fs)
    /\ walk = <<>>
    /\ passes = 0
    /\ changed = FALSE
    /\ prev = NoPrev
    /\ cfg_result = "none"
    /\ last_call = NoCall
    /\ idleUi

\* with_builtins_langs(dir), before any tree
InitStats ==
    /\ idleClassify
    /\ \E dir \in Dirs :
          /\ entries = with_builtins_langs(dir).entries
          /\ map_ext_id = with_builtins_langs(dir).map_ext_id
    /\ claims = <<>>
    /\ reg_pc = "idle"
    /\ result = "none"
    /\ fs \in [Paths -> Kinds]
    /\ listing \in Listings(fs)
    /\ walk = <<>>
    /\ passes = 0
    /\ changed = FALSE
    /\ prev = NoPrev
    /\ cfg_result = "none"
    /\ last_call = NoCall
    /\ idleUi

\* the first two languages to ask for each extension, by name, in the order
\* of the calls
Claimed(cl, spec) ==
    LET exts == { spec.extensions[i] : i \in 1..Len(spec.extensions) }
        old(e) == IF e \in DOMAIN cl THEN cl[e] ELSE <<>>
    IN  [e \in DOMAIN cl \cup exts |->
            IF /\ e \in exts
               /\ Len(old(e)) < 2
               /\ \A i \in 1..Len(old(e)) : old(e)[i] # spec.name
            THEN Append(old(e), spec.name)
            ELSE old(e)]

\* one language of the configuration: with_config calls add_entry and goes
\* on whatever it returns
AddEntry ==
    /\ reg_pc = "building"
    /\ \E spec \in LangSpecs :
          LET r == add_entry(entries, map_ext_id, spec, EmptyStats)
          IN  /\ entries' = r.entries
              /\ map_ext_id' = r.map_ext_id
              /\ claims' = Claimed(claims, spec)
    /\ UNCHANGED <<reg_pc, result>>
    /\ UNCHANGED <<classifyVars, countVars, treeVars, cfgVars, uiVars>>

\* with_config returns Ok(reg)
FinishBuild ==
    /\ reg_pc = "building"
    /\ reg_pc' = "idle"
    /\ cfg_result' = "ok"
    /\ UNCHANGED <<entries, map_ext_id, claims, result, last_call>>
    /\ UNCHANGED <<classifyVars, countVars, treeVars, uiVars>>

\* update_stats up to the loop: clear_locs, clear_paths, WalkDir::new
UpdateStart ==
    /\ reg_pc = "idle"
    /\ passes < MaxPasses
    /\ entries' = clear_paths(clear_locs(entries))
    /\ walk' = listing
    /\ reg_pc' = "walking"
    /\ result' = "none"
    /\ passes' = passes + 1
    /\ prev' = [ok |-> result = "ok", same |-> ~changed,
                stats |-> StatsOf(entries)]
    /\ changed' = FALSE
    /\ UNCHANGED <<map_ext_id, claims, fs, listing>>
    /\ UNCHANGED <<classifyVars, countVars, cfgVars, uiVars>>

\* the turn below as it would be if every file were put in the file set of
\* the first entry
UpdateStep_files_in_first_entry ==
    /\ reg_pc = "walking"
    /\ walk # <<>>
    /\ LET path == Head(walk)
           id == entry_id_of(map_ext_id, path)
       IN  IF ~is_file(fs[path]) \/ id = -1
           THEN /\ walk' = Tail(walk)
                /\ UNCHANGED <<entries, reg_pc, result>>
           ELSE IF ~(id < Len(entries))
           THEN /\ reg_pc' = "panicked"
                /\ UNCHANGED <<entries, walk, result>>
           ELSE LET loc == count_lines(fs[path], FileContent(path),
                                       entries[id + 1].spec.comments)
                IN  IF loc.panic
                    THEN /\ reg_pc' = "panicked"
                         /\ UNCHANGED <<entries, walk, result>>
                    ELSE IF ~loc.ok
                    THEN /\ reg_pc' = "idle"
                         /\ result' = "err"
                         /\ walk' = <<>>
                         /\ UNCHANGED entries
                    ELSE /\ entries' =
                              [entries EXCEPT
                                 ![1].stats.files = @ \cup {path},
                                 ![id + 1].stats.loc = @ + loc.val]
                         /\ walk' = Tail(walk)
                         /\ UNCHANGED <<reg_pc, result>>
    /\ UNCHANGED <<map_ext_id, claims, fs, listing, passes, changed, prev>>
    /\ UNCHANGED <<classifyVars, countVars, cfgVars, uiVars>>

\* the turn below as it would be if inside_block were kept from the file
\* counted before, rather than being a local of count_lines
UpdateStep_shares_inside_block ==
    /\ reg_pc = "walking"
    /\ walk # <<>>
    /\ LET path == Head(walk)
           id == entry_id_of(map_ext_id, path)
           done == Len(listing) - Len(walk)
           before == listing[done]
           carried == /\ done > 0
                      /\ fs[before] = "file"
                      /\ entry_id_of(map_ext_id, before) # -1
                      /\ EndsInsideBlock(before,
                            entries[entry_id_of(map_ext_id, before) + 1]
                                .spec.comments)
       IN  IF ~is_file(fs[path]) \/ id = -1
           THEN /\ walk' = Tail(walk)
                /\ UNCHANGED <<entries, reg_pc, result>>
           ELSE IF fs[path] # "file"
           THEN /\ reg_pc' = "idle"
                /\ result' = "err"
                /\ walk' = <<>>
                /\ UNCHANGED entries
           ELSE LET loc == CountFrom(FileContent(path), 1, carried, 0,
                                     entries[id + 1].spec.comments)
                IN  /\ entries' =
                          [entries EXCEPT
                             ![id + 1].stats.files = @ \cup {path},
                             ![id + 1].stats.loc = @ + loc.val]
                    /\ walk' = Tail(walk)
                    /\ UNCHANGED <<reg_pc, result>>
    /\ UNCHANGED <<map_ext_id, claims, fs, listing, passes, changed, prev>>
    /\ UNCHANGED <<classifyVars, countVars, cfgVars, uiVars>>

\* the turn below as it would be if the file set kept the last path only
UpdateStep_keeps_last_file ==
    /\ reg_pc = "walking"
    /\ walk # <<>>
    /\ LET path == Head(walk)
           id == entry_id_of(map_ext_id, path)
       IN  IF ~is_file(fs[path]) \/ id = -1
           THEN /\ walk' = Tail(walk)
                /\ UNCHANGED <<entries, reg_pc, result>>
           ELSE IF ~(id < Len(entries))
           THEN /\ reg_pc' = "panicked"
                /\ UNCHANGED <<entries, walk, result>>
           ELSE LET loc == count_lines(fs[path], FileContent(path),
                                       entries[id + 1].spec.comments)
                IN  IF loc.panic
                    THEN /\ reg_pc' = "panicked"
                         /\ UNCHANGED <<entries, walk, result>>
                    ELSE IF ~loc.ok
                    THEN /\ reg_pc' = "idle"
                         /\ result' = "err"
                         /\ walk' = <<>>
                         /\ UNCHANGED entries
                    ELSE /\ entries' =
                              [entries EXCEPT
                                 ![id + 1].stats.files = {path},
                                 ![id + 1].stats.loc = @ + loc.val]
                         /\ walk' = Tail(walk)
                         /\ UNCHANGED <<reg_pc, result>>
    /\ UNCHANGED <<map_ext_id, claims, fs, listing, passes, changed, prev>>
    /\ UNCHANGED <<classifyVars, countVars, cfgVars, uiVars>>

\* the turn below as it would be if a file count_lines fails on were passed
\* over and the loop went on
UpdateStep_passes_over_errors ==
    /\ reg_pc = "walking"
    /\ walk # <<>>
    /\ LET path == Head(walk)
           id == entry_id_of(map_ext_id, path)
       IN  IF ~is_file(fs[path]) \/ id = -1
           THEN /\ walk' = Tail(walk)
                /\ UNCHANGED <<entries, reg_pc, result>>
           ELSE IF ~(id < Len(entries))
           THEN \* get_spec indexes entries out of bounds
                /\ reg_pc' = "panicked"
                /\ UNCHANGED <<entries, walk, result>>
           ELSE LET loc == count_lines(fs[path], FileContent(path),
                                       entries[id + 1].spec.comments)
                IN  IF loc.panic
                    THEN /\ reg_pc' = "panicked"
                         /\ UNCHANGED <<entries, walk, result>>
                    ELSE IF ~loc.ok
                    THEN /\ walk' = Tail(walk)
                         /\ UNCHANGED <<entries, reg_pc, result>>
                    ELSE /\ entries' =
                              [entries EXCEPT
                                 ![id + 1].stats.files = @ \cup {path},
                                 ![id + 1].stats.loc = @ + loc.val]
                         /\ walk' = Tail(walk)
                         /\ UNCHANGED <<reg_pc, result>>
    /\ UNCHANGED <<map_ext_id, claims, fs, listing, passes, changed, prev>>
    /\ UNCHANGED <<classifyVars, countVars, cfgVars, uiVars>>

\* one turn of the loop of update_stats on the next path of the traversal
UpdateStep ==
    /\ reg_pc = "walking"
    /\ walk # <<>>
    /\ LET path == Head(walk)
           id == entry_id_of(map_ext_id, path)
       IN  IF ~is_file(fs[path]) \/ id = -1
           THEN /\ walk' = Tail(walk)
                /\ UNCHANGED <<entries, reg_pc, result>>
           ELSE IF ~(id < Len(entries))
           THEN \* get_spec indexes entries out of bounds
                /\ reg_pc' = "panicked"
                /\ UNCHANGED <<entries, walk, result>>
           ELSE LET loc == count_lines(fs[path], FileContent(path),
                                       entries[id + 1].spec.comments)
                IN  IF loc.panic
                    THEN /\ reg_pc' = "panicked"
                         /\ UNCHANGED <<entries, walk, result>>
                    ELSE IF ~loc.ok
                    THEN /\ reg_pc' = "idle"
                         /\ result' = "err"
                         /\ walk' = <<>>
                         /\ UNCHANGED entries
                    ELSE /\ entries' =
                              [entries EXCEPT
                                 ![id + 1].stats.files = @ \cup {path},
                                 ![id + 1].stats.loc = @ + loc.val]
                         /\ walk' = Tail(walk)
                         /\ UNCHANGED <<reg_pc, result>>
    /\ UNCHANGED <<map_ext_id, claims, fs, listing, passes, changed, prev>>
    /\ UNCHANGED <<classifyVars, countVars, cfgVars, uiVars>>

\* the traversal is exhausted: Ok(())
UpdateEnd ==
    /\ reg_pc = "walking"
    /\ walk = <<>>
    /\ reg_pc' = "idle"
    /\ result' = "ok"
    /\ UNCHANGED <<entries, map_ext_id, claims>>
    /\ UNCHANGED <<classifyVars, countVars, treeVars, cfgVars, uiVars>>

\* between two calls somebody creates, deletes or replaces a path, and a
\* traversal yields what the new tree has
TreeChange ==
    /\ reg_pc = "idle"
    /\ 0 < passes /\ passes < MaxPasses
    /\ ~changed
    /\ \E p \in Paths, k \in Kinds :
          /\ k # fs[p]
          /\ fs' = [fs EXCEPT ![p] = k]
    /\ listing' \in Listings(fs')
    /\ changed' = TRUE
    /\ UNCHANGED <<walk, passes, prev>>
    /\ UNCHANGED <<classifyVars, countVars, regVars, cfgVars, uiVars>>

\* one turn of the loop on a file of a registered extension that somebody
\* deletes, or replaces by a directory, after the traversal has yielded it:
\* either before update_stats tests path.is_file(), which then skips it, or
\* after that and before count_lines tests path.is_file(), which then
\* returns the error
UpdateStepRaced ==
    /\ reg_pc = "walking"
    /\ walk # <<>>
    /\ fs[Head(walk)] = "file"
    /\ entry_id_of(map_ext_id, Head(walk)) # -1
    /\ \E k \in {"absent", "dir"} :
          fs' = [fs EXCEPT ![Head(walk)] = k]
    /\ changed' = TRUE
    /\ \/ /\ walk' = Tail(walk)
          /\ UNCHANGED <<reg_pc, result>>
       \/ /\ entry_id_of(map_ext_id, Head(walk)) < Len(entries)
          /\ reg_pc' = "idle"
          /\ result' = "err"
          /\ walk' = <<>>
    /\ UNCHANGED <<entries, map_ext_id, claims, listing, passes, prev>>
    /\ UNCHANGED <<classifyVars, countVars, cfgVars, uiVars>>

Next == AddEntry \/ FinishBuild \/ UpdateStart \/ UpdateStep \/ UpdateEnd

NextStats == UpdateStart \/ UpdateStep \/ UpdateEnd \/ TreeChange

Spec == Init /\ [][Next]_vars

SpecStats == InitStats /\ [][NextStats]_vars

NextRace == UpdateStart \/ UpdateStep \/ UpdateEnd \/ UpdateStepRaced

SpecRace == InitStats /\ [][NextRace]_vars

\* the built-in registry over trees of files and directories of every kind
\* of extension
InitExt ==
    /\ idleClassify
    /\ \E dir \in Dirs :
          /\ entries = with_builtins_langs(dir).entries
          /\ map_ext_id = with_builtins_langs(dir).map_ext_id
    /\ claims = <<>>
    /\ reg_pc = "idle"
    /\ result = "none"
    /\ fs \in [ExtPaths -> {"file", "dir"}]
    /\ listing \in Listings(fs)
    /\ walk = <<>>
    /\ passes = 0
    /\ changed = FALSE
    /\ prev = NoPrev
    /\ cfg_result = "none"
    /\ last_call = NoCall
    /\ idleUi

NextExt == UpdateStart \/ UpdateStep \/ UpdateEnd

SpecExt == InitExt /\ [][NextExt]_vars

\* paths of two languages, two of them of one language
OrderPaths == { "a.c", "b.h", "m.rs" }

\* the sequences that hold the elements of l in another order
Reorderings(l) ==
    { r \in { [i \in 1..Len(l) |-> l[p[i]]] : p \in Permutations(1..Len(l)) } :
        r # l }

\* between two calls the traversal comes to yield the same paths in
\* another order
Reorder ==
    /\ reg_pc = "idle"
    /\ 0 < passes /\ passes < MaxPasses
    /\ ~changed
    /\ listing' \in Reorderings(listing)
    /\ changed' = TRUE
    /\ UNCHANGED <<fs, walk, passes, prev>>
    /\ UNCHANGED <<classifyVars, countVars, regVars, cfgVars, uiVars>>

\* the built-in registry over trees of readable files and directories
InitOrder ==
    /\ idleClassify
    /\ \E dir \in Dirs :
          /\ entries = with_builtins_langs(dir).entries
          /\ map_ext_id = with_builtins_langs(dir).map_ext_id
    /\ claims = <<>>
    /\ reg_pc = "idle"
    /\ result = "none"
    /\ fs \in [OrderPaths -> {"file", "dir"}]
    /\ listing \in Listings(fs)
    /\ walk = <<>>
    /\ passes = 0
    /\ changed = FALSE
    /\ prev = NoPrev
    /\ cfg_result = "none"
    /\ last_call = NoCall
    /\ idleUi

NextOrder == UpdateStart \/ UpdateStep \/ UpdateEnd \/ Reorder

SpecOrder == InitOrder /\ [][NextOrder]_vars

(***************************************************************************)
(* with_config on a configuration: every language is converted, then       *)
(* registered.                                                             *)
(***************************************************************************)
\* the match on what add_entry returned as it would be if Err(e) ended
\* with_config
with_config_match_returns(ok) == IF ok THEN "building" ELSE "config_error"

\* the match on what add_entry returned: Ok does nothing, Err(e) prints e,
\* and the loop goes on
with_config_match(ok) == "building"

\* the language handled last, or one before it, asked for an extension
\* that was taken
Reported(call) == call.made /\ (call.conflict \/ call.earlier)

\* one turn of the loop of with_config: language.try_into()?, add_entry
ConfigLanguage ==
    /\ reg_pc = "building"
    /\ last_call.nth < MaxLanguages
    /\ \E language \in CfgLangs :
          LET entry == LangEntry_try_from(language)
          IN  IF ~entry.ok
              THEN \* Err(e) is returned and reg is dropped
                   /\ reg_pc' = "config_error"
                   /\ cfg_result' = entry.err
                   /\ entries' = <<>>
                   /\ map_ext_id' = <<>>
                   /\ claims' = <<>>
                   /\ last_call' =
                         [made |-> TRUE, nth |-> last_call.nth + 1,
                          language |-> language,
                          valid |-> FALSE, conflict |-> FALSE,
                          fresh |-> {}, len |-> Len(entries),
                          earlier |-> Reported(last_call)]
              ELSE LET spec == entry.val.spec
                       r == add_entry(entries, map_ext_id, spec,
                                      entry.val.stats)
                   IN  /\ entries' = r.entries
                       /\ map_ext_id' = r.map_ext_id
                       /\ claims' = Claimed(claims, spec)
                       /\ reg_pc' = with_config_match(r.ok)
                       /\ last_call' =
                             [made |-> TRUE, nth |-> last_call.nth + 1,
                              language |-> language,
                              valid |-> TRUE,
                              conflict |->
                                 \E i \in 1..Len(spec.extensions) :
                                    \/ spec.extensions[i]
                                          \in DOMAIN map_ext_id
                                    \/ \E j \in 1..(i - 1) :
                                          spec.extensions[j]
                                             = spec.extensions[i],
                              fresh |-> { spec.extensions[i] :
                                            i \in 1..Len(spec.extensions) }
                                        \ DOMAIN map_ext_id,
                              len |-> Len(entries),
                              earlier |-> Reported(last_call)]
                       /\ UNCHANGED cfg_result
    /\ UNCHANGED result
    /\ UNCHANGED <<classifyVars, countVars, treeVars, uiVars>>

\* LangRegistry::new() at the start of with_config
InitConfig ==
    /\ idleClassify
    /\ entries = <<>>
    /\ map_ext_id = <<>>
    /\ claims = <<>>
    /\ reg_pc = "building"
    /\ result = "none"
    /\ fs = [p \in Paths |-> "file"]
    /\ listing = <<>>
    /\ walk = <<>>
    /\ passes = 0
    /\ changed = FALSE
    /\ prev = NoPrev
    /\ cfg_result = "none"
    /\ last_call = NoCall
    /\ idleUi

NextConfig == ConfigLanguage \/ FinishBuild

SpecConfig == InitConfig /\ [][NextConfig]_vars

(***************************************************************************)
(* The terminal UI of ui/model.rs: Model::run and its event loop.  A turn  *)
(* of the loop draws, polls for an event for 250 ms, and assigns the state *)
(* that update returns for the message the event stands for.               *)
(***************************************************************************)
MaxEvents == 3

\* KeyEventKind, and the key codes told apart: the characters u and q, a
\* capital Q, another character, a key that is no character
KeyKinds == {"Press", "Repeat", "Release"}

KeyCodes == {"u", "q", "Q", "x", "Esc"}

Key(kind, code) == [event |-> "Key", kind |-> kind, code |-> code]

\* an event that is no key event
Resize == [event |-> "Resize", kind |-> "none", code |-> "none"]

\* event::poll returned false after 250 ms
Timeout == [event |-> "none", kind |-> "none", code |-> "none"]

\* draw, poll or read returned an Err
IoError == [event |-> "error", kind |-> "none", code |-> "none"]

Events ==
    {Timeout, Resize} \cup { Key(k, c) : k \in KeyKinds, c \in KeyCodes }

update_stays_on_quit(msg) == IF msg = "Update" THEN "Updating" ELSE "Running"

\* Model::update
update(msg) == IF msg = "Update" THEN "Updating" ELSE "Done"

\* Model::handle_key
handle_key(key) ==
    IF key.code = "u" THEN <<"Update">>
    ELSE IF key.code = "q" THEN <<"Quit">>
    ELSE <<>>

\* Model::handle_event, given what poll and read brought
handle_event(ev) ==
    IF ev.event = "Key" /\ ev.kind = "Press" THEN handle_key(ev) ELSE <<>>

\* Model::run is called on a Model::default()
InitUi ==
    /\ idleClassify
    /\ entries = <<>> /\ map_ext_id = <<>> /\ claims = <<>>
    /\ reg_pc = "unused"
    /\ result = "none" /\ fs = <<>> /\ listing = <<>> /\ walk = <<>>
    /\ passes = 0 /\ changed = FALSE /\ prev = <<>>
    /\ cfg_result = "none" /\ last_call = <<>>
    /\ running_state = "unset" /\ self_state = "Running"
    /\ state_before = "unset" /\ ui_event = NoEvent /\ current_msg = <<>>
    /\ ui_turns = 0 /\ ui_pc = "start"

\* run up to the loop: install_panic_hook, init_terminal()?, Model::default()
RunStart ==
    /\ ui_pc = "start"
    /\ \/ /\ ui_pc' = "test"
          /\ running_state' = "Running"
       \/ /\ ui_pc' = "err"
          /\ UNCHANGED running_state
    /\ UNCHANGED <<self_state, state_before, ui_event, current_msg, ui_turns>>
    /\ UNCHANGED <<classifyVars, countVars, regVars, treeVars, cfgVars>>

\* while model.running_state != RunningState::Done
LoopTest ==
    /\ ui_pc = "test"
    /\ ui_pc' = IF running_state # "Done" THEN "body" ELSE "restore"
    /\ UNCHANGED <<running_state, self_state, state_before, ui_event,
                   current_msg, ui_turns>>
    /\ UNCHANGED <<classifyVars, countVars, regVars, treeVars, cfgVars>>

\* one turn of the loop: terminal.draw(..)?, self.handle_event()?, and the
\* assignment of self.update(msg)? when there is a message
LoopBody ==
    /\ ui_pc = "body"
    /\ ui_turns < MaxEvents
    /\ ui_turns' = ui_turns + 1
    /\ state_before' = running_state
    /\ \/ \E ev \in Events :
             LET msg == handle_event(ev)
             IN  /\ ui_event' = ev
                 /\ current_msg' = msg
                 /\ running_state' =
                       IF msg # <<>> THEN update(msg[1]) ELSE running_state
                 /\ ui_pc' = "test"
       \/ /\ ui_event' = IoError
          /\ current_msg' = <<>>
          /\ ui_pc' = "err"
          /\ UNCHANGED running_state
    /\ UNCHANGED self_state
    /\ UNCHANGED <<classifyVars, countVars, regVars, treeVars, cfgVars>>

\* tui::restore_terminal()?; Ok(())
Restore ==
    /\ ui_pc = "restore"
    /\ ui_pc' \in {"ok", "err"}
    /\ UNCHANGED <<running_state, self_state, state_before, ui_event,
                   current_msg, ui_turns>>
    /\ UNCHANGED <<classifyVars, countVars, regVars, treeVars, cfgVars>>

NextUi == RunStart \/ LoopTest \/ LoopBody \/ Restore

SpecUi == InitUi /\ [][NextUi]_vars

\* run goes on executing: the loop condition is tested after every turn,
\* and the terminal restored once the loop is left
SpecUiFair == SpecUi /\ WF_vars(LoopTest) /\ WF_vars(Restore)

(***************************************************************************)
(* What the claims call a comment and code text, read off the line itself  *)
(* with the position-wise predicates; none of the operators that model the *)
(* code is used.                                                           *)
(***************************************************************************)
\* the first non-whitespace text of l starts with one of the prefixes
FirstTextIsPrefix(l, prefixes) ==
    \E i \in 1..Len(l) :
        /\ l[i] # " "
        /\ \A j \in 1..(i - 1) : l[j] = " "
        /\ \E n \in 1..Len(prefixes) : At(l, i, prefixes[n])

\* The line read as the language reads it, from position i on: a block
\* comment runs from an open token met outside a comment to the next
\* close token, a line comment from a prefix met outside a block comment
\* to the end of the line.  acc collects: code (a non-whitespace character
\* outside every comment), blocks (block comments opened on the line),
\* stray (a close token outside any block comment), marker (a line
\* comment was met), inside (the line ends inside a block comment).
RECURSIVE ReadAsLanguage(_, _, _, _)
ReadAsLanguage(l, i, ct, acc) ==
    IF i > Len(l) THEN acc
    ELSE IF acc.inside
    THEN IF At(l, i, ct.block.close)
         THEN ReadAsLanguage(l, i + Len(ct.block.close), ct,
                             [acc EXCEPT !.inside = FALSE])
         ELSE ReadAsLanguage(l, i + 1, ct, acc)
    ELSE IF At(l, i, ct.block.open)
    THEN ReadAsLanguage(l, i + Len(ct.block.open), ct,
                        [acc EXCEPT !.inside = TRUE, !.blocks = @ + 1])
    ELSE IF At(l, i, ct.block.close)
    THEN ReadAsLanguage(l, i + Len(ct.block.close), ct,
                        [acc EXCEPT !.stray = TRUE])
    ELSE IF \E n \in 1..Len(ct.line) : At(l, i, ct.line[n])
    THEN [acc EXCEPT !.marker = TRUE]
    ELSE IF l[i] = " "
    THEN ReadAsLanguage(l, i + 1, ct, acc)
    ELSE ReadAsLanguage(l, i + 1, ct, [acc EXCEPT !.code = TRUE])

Reading(l, inside, ct) ==
    ReadAsLanguage(l, 1, ct, [code |-> FALSE, blocks |-> 0, stray |-> FALSE,
                              marker |-> FALSE, inside |-> inside])

\* the call that has just returned, as the language reads its line
Read == Reading(cur_line, inside_before, cur_comments)

Returned == pc = "returned"

(***************************************************************************)
(* The line classifier.                                                    *)
(***************************************************************************)

\* C1: with /* and */ and classification starting outside a block, a line
\* that has code text before, between or after complete block comments is
\* classified as code.  Stated for all-ASCII lines: the line holds at
\* least one block comment, every block comment on it is closed, it holds
\* no line comment marker and no close token of its own, and some
\* non-whitespace character lies outside the comments.
C1_CodeAroundBlockComments ==
    (/\ Returned
     /\ cur_comments = CComments
     /\ IsAscii(cur_line)
     /\ ~inside_before
     /\ Read.blocks >= 1
     /\ ~Read.inside
     /\ ~Read.stray
     /\ ~Read.marker
     /\ Read.code)
    => verdict = "code"

\* C2: a line that is entirely comment is never counted: when every
\* non-whitespace character of the line lies inside a block comment or
\* after a line comment marker, the classifier returns not-code.  Stated
\* for all-ASCII lines, from either carried state.
C2_CommentOnlyLineNotCode ==
    (/\ Returned
     /\ cur_comments = CComments
     /\ IsAscii(cur_line)
     /\ ~Read.stray
     /\ ~Read.code)
    => verdict = "notcode"

\* C3: with /* and */, a line that opens a block comment which is not
\* closed on the same line leaves inside_block = TRUE; it is not-code when
\* only the comment is on it, and code when code text stands before the
\* open token; and a line met inside a block that does not contain the
\* close token is not-code and leaves inside_block = TRUE.  Stated for
\* all-ASCII lines.
C3_UnclosedBlockComment ==
    /\ (/\ Returned
        /\ cur_comments = CComments
        /\ ~inside_before
        /\ Read.inside
        /\ ~Read.stray)
       => /\ inside_block
          /\ Read.code => verdict = "code"
          /\ (~Read.code /\ Read.blocks = 1) => verdict = "notcode"
    /\ (/\ Returned
        /\ cur_comments = CComments
        /\ inside_before
        /\ ~Contains(cur_line, cur_comments.block.close))
       => (verdict = "notcode" /\ inside_block)

\* C4: a file that consists only of one block comment (open token, text,
\* close token) on N >= 1 lines contributes 0 to the count, for every
\* comment type that has a block pair.
C4_BlockCommentFileCountsZero ==
    (pc = "done" /\ shape = "block_closed") => cnt = 0

\* C5: for every comment type and either value of inside_block, a line
\* that is empty or holds only whitespace is not-code and leaves
\* inside_block as it was.
C5_BlankLineNotCode ==
    (Returned /\ IsBlank(cur_line))
    => (verdict = "notcode" /\ inside_block = inside_before)

\* C5 witness: a line of several blanks was classified inside a block,
\* and one was classified with a comment type that has no block pair.
C5_Witness ==
    /\ Returned
    /\ IsBlank(cur_line)
    /\ Len(cur_line) >= 2
    /\ \/ (inside_before /\ HasBlock(cur_comments))
       \/ (~inside_before /\ cur_comments = LineOnlyComments)

\* C6: with a comment type that has no block pair, a line is code exactly
\* when it is not blank and its first non-whitespace text starts with none
\* of the line prefixes, whichever place a prefix has in the list; the
\* call never fails and inside_block stays as it was.
C6_LineOnlyCommentType ==
    (Returned /\ ~HasBlock(cur_comments))
    => /\ verdict \in {"code", "notcode"}
       /\ verdict = "code" <=>
             (~IsBlank(cur_line)
              /\ ~FirstTextIsPrefix(cur_line, cur_comments.line))
       /\ inside_block = inside_before

\* C6 witness: whitespace, then the last prefix of a list of three, then
\* text, was classified not-code.
C6_Witness ==
    /\ Returned
    /\ cur_comments = ManyLineComments
    /\ cur_line = <<" ", "/", "/", "c">>
    /\ ~inside_before
    /\ ~inside_block
    /\ verdict = "notcode"

(***************************************************************************)
(* The registry claims.                                                    *)
(***************************************************************************)
\* update_stats has returned Ok and the tree is as the call saw it
PassDone == reg_pc = "idle" /\ result = "ok" /\ ~changed

\* the sum of count_lines over the paths of S, each taken once
RECURSIVE SumOfCounts(_, _)
SumOfCounts(S, comment_type) ==
    IF S = {} THEN 0
    ELSE LET p == CHOOSE q \in S : TRUE
         IN  count_lines(fs[p], FileContent(p), comment_type).val
             + SumOfCounts(S \ {p}, comment_type)

\* the files among the yielded paths whose extension resolves to LangId(id)
MatchingFiles(id) ==
    { listing[i] : i \in { j \in 1..Len(listing) :
          /\ is_file(fs[listing[j]])
          /\ entry_id_of(map_ext_id, listing[j]) = id } }

\* C7: after a successful update_stats each entry's loc is the sum of
\* count_lines over the distinct paths of its file set, so a path the
\* traversal yields twice in one pass adds to loc once.
C7_LocIsSumOverDistinctPaths ==
    PassDone =>
        \A k \in 1..Len(entries) :
            entries[k].stats.loc =
                SumOfCounts(entries[k].stats.files, entries[k].spec.comments)

\* C8: update_stats run twice in a row on an unchanged tree leaves every
\* entry with the same file set and the same loc after the second run as
\* after the first.
C8_UpdateStatsIdempotent ==
    (reg_pc = "idle" /\ result = "ok" /\ prev.ok /\ prev.same)
        => StatsOf(entries) = prev.stats

C8_Witness ==
    /\ reg_pc = "idle" /\ result = "ok" /\ prev.ok /\ prev.same
    /\ \E k \in 1..Len(entries) : entries[k].stats.loc > 0

\* C9: after a successful update_stats the stats are those of that pass: an
\* entry's file set holds the matching files the traversal yielded and no
\* other, and an entry the traversal yielded no matching file for has an
\* empty file set and loc 0, whatever its stats were before the pass.
C9_StatsReflectOnlyThisPass ==
    PassDone =>
        \A k \in 1..Len(entries) :
            /\ entries[k].stats.files = MatchingFiles(k - 1)
            /\ MatchingFiles(k - 1) = {} => entries[k].stats = EmptyStats

C9_Witness ==
    /\ PassDone /\ prev.ok
    /\ \E k \in 1..Len(entries) :
          /\ prev.stats[k].files # {} /\ prev.stats[k].loc > 0
          /\ MatchingFiles(k - 1) = {}
          /\ entries[k].stats = EmptyStats

\* C10: when two entries claim one extension the extension resolves to the
\* first of the two whatever is registered later, and update_stats puts the
\* files with that extension in the file set of that first entry only.
C10_FirstRegistrationWins ==
    \A e \in DOMAIN claims :
        Len(claims[e]) = 2 =>
            /\ get_entry_id(map_ext_id, e) \in 0..(Len(entries) - 1)
            /\ entries[get_entry_id(map_ext_id, e) + 1].spec.name
                   = claims[e][1]
            /\ \A k \in 1..Len(entries) :
                   \A p \in entries[k].stats.files :
                       extension(p) = <<e>>
                           => entries[k].spec.name = claims[e][1]

(***************************************************************************)
(* The configuration claims.                                               *)
(***************************************************************************)
\* the language handled last passed validation and was handed to add_entry
Handled == last_call.made /\ last_call.valid

\* the language handled last is the last of entries, and every extension of
\* it that was free before the call resolves to it
LastIsRegistered ==
    /\ Len(entries) = last_call.len + 1
    /\ entries[Len(entries)].spec.name = last_call.language.name[1]
    /\ entries[Len(entries)].spec.extensions
           = last_call.language.extensions[1]
    /\ \A e \in last_call.fresh :
           get_entry_id(map_ext_id, e) = last_call.len

\* C11: an entry that asks for an extension already taken loses only that
\* mapping: the entry is appended to entries all the same and each of its
\* other extensions is mapped to it.
C11_ConflictingEntryStillAdded ==
    (Handled /\ last_call.conflict) => LastIsRegistered

\* C12: a language that asks for a taken extension never ends with_config:
\* the loop goes on, a later language whose extensions are all free is
\* registered, and with_config returns Ok.
C12_ConflictNeverAbortsWithConfig ==
    /\ Handled => reg_pc \in {"building", "idle"}
    /\ (Handled /\ Reported(last_call) /\ reg_pc = "building"
            /\ last_call.nth < MaxLanguages) => ENABLED ConfigLanguage
    /\ (Handled /\ last_call.earlier /\ ~last_call.conflict)
           => LastIsRegistered
    /\ reg_pc = "idle" => cfg_result = "ok"

C12_Witness ==
    /\ reg_pc = "idle" /\ cfg_result = "ok"
    /\ Handled /\ last_call.earlier /\ ~last_call.conflict
    /\ LastIsRegistered

\* an Option holds nothing, or something empty
AbsentOrEmpty(opt) == opt = <<>> \/ opt[1] = <<>>

\* what is wrong with a comments table, the line key looked at first
CommentProblem(comment) ==
    CASE AbsentOrEmpty(comment.line) -> "LineCommentMissing"
      [] /\ ~AbsentOrEmpty(comment.line)
         /\ comment.block # <<>>
         /\ \/ AbsentOrEmpty(comment.block[1].open)
            \/ AbsentOrEmpty(comment.block[1].close) -> "InvalidBlockComment"
      [] OTHER -> "none"

\* what is wrong with a language: name, then extensions, then comments
LanguageProblem(language) ==
    CASE language.name = <<>> -> "LanguageNameMissing"
      [] language.name # <<>> /\ AbsentOrEmpty(language.extensions)
            -> "ExtensionMissing"
      [] /\ language.name # <<>> /\ ~AbsentOrEmpty(language.extensions)
         /\ language.comments = <<>> -> "CommentsMissing"
      [] OTHER -> CommentProblem(language.comments[1])

\* C13: with_config returns an error and no registry as soon as a language
\* fails validation, whatever was registered before it; no later language
\* is looked at, and the error is the first of: name missing, extensions
\* missing or empty, comments missing, the comment checks.
C13_FirstValidationFailureReturned ==
    last_call.made =>
        /\ (reg_pc = "config_error")
               = (LanguageProblem(last_call.language) # "none")
        /\ reg_pc = "config_error" =>
               /\ cfg_result = LanguageProblem(last_call.language)
               /\ entries = <<>> /\ map_ext_id = <<>>
               /\ ~ENABLED ConfigLanguage
               /\ ~ENABLED FinishBuild

C13_Witness ==
    /\ reg_pc = "config_error"
    /\ last_call.nth > 1 /\ last_call.len > 0
    /\ last_call.language.name = <<>>
    /\ AbsentOrEmpty(last_call.language.extensions)
    /\ cfg_result = "LanguageNameMissing"

\* the comments table of the language handled last, when its name and
\* extensions are in order
CommentsHandled ==
    /\ last_call.made
    /\ last_call.language.name # <<>>
    /\ ~AbsentOrEmpty(last_call.language.extensions)
    /\ last_call.language.comments # <<>>

\* C14: building a comment spec fails with LineCommentMissing when the line
\* list is absent or empty, also when the block table is invalid too; with
\* InvalidBlockComment when a block table is there and its open or close
\* token is absent or empty; gives block = none when there is no block
\* table; and otherwise gives the tokens unchanged.
C14_CommentSpecConstruction ==
    CommentsHandled =>
        LET comment == last_call.language.comments[1]
        IN  IF CommentProblem(comment) # "none"
            THEN /\ reg_pc = "config_error"
                 /\ cfg_result = CommentProblem(comment)
            ELSE /\ reg_pc # "config_error"
                 /\ ~last_call.conflict =>
                       /\ Len(entries) = last_call.len + 1
                       /\ entries[Len(entries)].spec.comments.line
                              = comment.line[1]
                       /\ entries[Len(entries)].spec.comments.block
                              = IF comment.block = <<>>
                                THEN NoBlock
                                ELSE [open |-> comment.block[1].open[1],
                                      close |-> comment.block[1].close[1]]

C14_Witness ==
    /\ CommentsHandled
    /\ AbsentOrEmpty(last_call.language.comments[1].line)
    /\ last_call.language.comments[1].block # <<>>
    /\ AbsentOrEmpty(last_call.language.comments[1].block[1].open)
    /\ cfg_result = "LineCommentMissing"

\* C15: in a registry with_config returns, every line-comment prefix of
\* every entry is a non-empty string.
C15_LinePrefixesNonEmpty ==
    (reg_pc = "idle" /\ cfg_result = "ok") =>
        \A k \in 1..Len(entries) :
            \A i \in 1..Len(entries[k].spec.comments.line) :
                entries[k].spec.comments.line[i] # <<>>

(***************************************************************************)
(* The file counter claims.                                                *)
(***************************************************************************)
\* C16: a line that does not decode is skipped and the scan goes on, so
\* count_lines has read every line of the file when it returns its count.
C16_UndecodableLineSkipped == pc = "done" => remaining = 0

\* this step hands a line to the classifier
LineClassified ==
    /\ pc = "reading"
    /\ pc' \in {"reading", "panicked"}
    /\ remaining' = remaining - 1

Resolved(path) ==
    is_file(fs[path]) /\ entry_id_of(map_ext_id, path) # -1

\* the positions of the traversal where count_lines fails: the path is a
\* file of a registered extension and cannot be opened
Failures ==
    { i \in 1..Len(listing) :
        Resolved(listing[i]) /\ fs[listing[i]] = "unreadable" }

FirstFailure == CHOOSE i \in Failures : \A j \in Failures : i <= j

\* the files among the first n yielded paths that resolve to LangId(id)
MatchingFilesUpTo(n, id) ==
    { listing[i] : i \in { j \in 1..n :
          /\ is_file(fs[listing[j]])
          /\ entry_id_of(map_ext_id, listing[j]) = id } }

\* update_stats has returned and the tree is as the call saw it
PassOver == reg_pc = "idle" /\ passes > 0 /\ ~changed

\* C17: when count_lines fails on a file that resolves to a language,
\* update_stats returns the error at once: the file sets hold the files
\* yielded before it and none yielded after it, and nothing yielded after
\* it is counted.
C17_FirstCountErrorEndsPass ==
    PassOver =>
        IF Failures = {}
        THEN result = "ok"
        ELSE /\ result = "err"
             /\ \A k \in 1..Len(entries) :
                   /\ entries[k].stats.files
                          = MatchingFilesUpTo(FirstFailure - 1, k - 1)
                   /\ MatchingFilesUpTo(FirstFailure - 1, k - 1) = {}
                          => entries[k].stats.loc = 0

C17_Witness ==
    /\ PassOver /\ result = "err"
    /\ Len(listing) = 2 /\ FirstFailure = 1
    /\ Resolved(listing[2]) /\ fs[listing[2]] = "file"
    /\ \A k \in 1..Len(entries) : entries[k].stats = EmptyStats

\* C18: when a path of a registered extension that the traversal yielded
\* stops being a regular file before update_stats opens it, the call
\* returns an error; the file is never passed over in silence.
C18_VanishedFileFailsPass ==
    (reg_pc = "idle" /\ passes > 0 /\ changed) => result = "err"

\* the files among the yielded paths whose extension is, as written, a key
\* of the index that leads to LangId(id)
ExactlyIndexed(id) ==
    { listing[i] : i \in { j \in 1..Len(listing) :
          /\ is_file(fs[listing[j]])
          /\ \E e \in DOMAIN map_ext_id :
                extension(listing[j]) = <<e>> /\ map_ext_id[e] = id } }

\* C20: a file is attributed to a language exactly when its extension is,
\* case-sensitively, a key of the index: a file whose extension is not
\* registered, is written in another case (A.RS when rs is registered) or
\* is missing changes no entry's statistics and raises no error.
C20_AttributedIffExtensionIndexed ==
    (reg_pc = "idle" /\ passes > 0) =>
        /\ result = "ok"
        /\ \A k \in 1..Len(entries) :
              /\ entries[k].stats.files = ExactlyIndexed(k - 1)
              /\ ExactlyIndexed(k - 1) = {} => entries[k].stats.loc = 0

C20_Witness ==
    /\ reg_pc = "idle" /\ passes > 0 /\ result = "ok"
    /\ listing = <<"A.RS", "m.rs">>
    /\ fs["A.RS"] = "file" /\ fs["m.rs"] = "file"
    /\ entries[1].spec.name = "Rust"
    /\ entries[1].stats.files = {"m.rs"}
    /\ entries[1].stats.loc = 2
    /\ entries[2].stats = EmptyStats

\* C21: two traversals that yield the same readable files in different
\* orders leave every entry with the same file set and the same loc.
C21_OrderOfTraversalImmaterial ==
    (reg_pc = "idle" /\ passes > 1 /\ ~changed /\ ~prev.same)
        => /\ result = "ok" /\ prev.ok
           /\ StatsOf(entries) = prev.stats

C21_Witness ==
    /\ reg_pc = "idle" /\ passes > 1 /\ ~changed /\ ~prev.same
    /\ listing = <<"b.h", "a.c">>
    /\ fs["a.c"] = "file" /\ fs["b.h"] = "file"
    /\ entries[2].stats.files = {"a.c", "b.h"}
    /\ entries[2].stats.loc = 2
    /\ StatsOf(entries) = prev.stats

\* what the yielded files of LangId(id) count when each is counted alone,
\* from position i of the traversal on
RECURSIVE CountedAlone(_, _)
CountedAlone(i, id) ==
    IF i > Len(listing) THEN 0
    ELSE (IF is_file(fs[listing[i]])
             /\ entry_id_of(map_ext_id, listing[i]) = id
          THEN count_lines(fs[listing[i]], FileContent(listing[i]),
                           entries[id + 1].spec.comments).val
          ELSE 0)
         + CountedAlone(i + 1, id)

\* C22: every file is counted from inside_block = false: what a file adds
\* to its entry's loc is what it counts alone, whatever was counted before
\* it in the pass, a file that ends inside an unclosed block comment
\* included.
C22_NoStateSharedBetweenFiles ==
    (reg_pc = "idle" /\ passes > 0 /\ result = "ok")
        => \A k \in 1..Len(entries) :
              entries[k].stats.loc = CountedAlone(1, k - 1)

C22_Witness ==
    /\ reg_pc = "idle" /\ passes > 0 /\ result = "ok"
    /\ listing = <<"b.h", "a.c">>
    /\ fs["a.c"] = "file" /\ fs["b.h"] = "file"
    /\ EndsInsideBlock("b.h", entries[2].spec.comments)
    /\ count_lines("file", FileContent("a.c"), entries[2].spec.comments).val = 1
    /\ entries[2].stats.loc = 2

\* C23: with_builtins_langs(dir) gives a registry rooted at dir with two
\* entries, Rust (rs; //, ///, //!; /* */) at index 0 and C (c, h; //;
\* /* */) at index 1, the index rs -> 0, c -> 1, h -> 1, empty stats
\* everywhere, and no registration conflict on the way.
C23_BuiltinRegistry ==
    LET slashes == <<"/", "/">>
        c_block == [open |-> <<"/", "*">>, close |-> <<"*", "/">>]
        rust == [spec |-> [name |-> "Rust", extensions |-> <<"rs">>,
                           comments |->
                              [line |-> << slashes, <<"/", "/", "/">>,
                                           <<"/", "/", "!">> >>,
                               block |-> c_block]],
                 stats |-> [files |-> {}, loc |-> 0]]
        c == [spec |-> [name |-> "C", extensions |-> <<"c", "h">>,
                        comments |-> [line |-> << slashes >>,
                                      block |-> c_block]],
              stats |-> [files |-> {}, loc |-> 0]]
        index == ("rs" :> 0) @@ ("c" :> 1) @@ ("h" :> 1)
    IN  /\ \A dir \in Dirs :
              with_builtins_langs(dir) =
                  [dir |-> dir, entries |-> <<rust, c>>,
                   map_ext_id |-> index, printed |-> 0]
        /\ passes = 0 => (entries = <<rust, c>> /\ map_ext_id = index)

C23_Witness ==
    /\ passes = 0 /\ reg_pc = "idle"
    /\ Len(entries) = 2
    /\ entries[1].spec.name = "Rust" /\ entries[2].spec.name = "C"
    /\ DOMAIN map_ext_id = {"rs", "c", "h"}

(***************************************************************************)
(* The line classifier inside and around block comments.                   *)
(***************************************************************************)
\* C24: the test for a line comment at the start of the line applies only
\* outside a block: a line met inside a block that begins with a line
\* prefix and holds the close token (`// end */ code`) leaves the block,
\* and what follows the close token decides whether the line is code.
C24_LinePrefixInsideBlock ==
    (/\ Returned
     /\ cur_comments = CComments
     /\ inside_before
     /\ FirstTextIsPrefix(cur_line, cur_comments.line)
     /\ Contains(cur_line, cur_comments.block.close)
     /\ ~Contains(cur_line, cur_comments.block.open)
     /\ Read.code)
    => (verdict = "code" /\ ~inside_block)

\* C25: the scan recognises the open token only outside a block; inside a
\* block it looks for the close token alone.  So a close token that
\* overlaps an open-looking sequence inside a comment (`/* a /*/ code`)
\* ends the block and the text after it is code, and with one token for
\* open and close its occurrences open and close by turns.  Stated for
\* all-ASCII lines that do not start with a line prefix and on which no
\* line comment marker and no close token stands outside the comments so
\* read.
C25_OpenOnlyOutsideBlock ==
    (/\ Returned
     /\ HasBlock(cur_comments)
     /\ IsAscii(cur_line)
     /\ ~FirstTextIsPrefix(cur_line, cur_comments.line)
     /\ ~Read.marker
     /\ ~Read.stray)
    => /\ inside_block = Read.inside
       /\ Read.code => verdict = "code"

\* where the first close token of the line ends (1-based position of the
\* character after it)
AfterFirstClose(l, close) ==
    LET hits == { i \in 1..Len(l) : At(l, i, close) }
    IN  (CHOOSE i \in hits : \A j \in hits : i <= j) + Len(close)

C27_ScanStopsAtLineMarker ==
    (/\ Returned
     /\ cur_comments = CComments
     /\ Read.marker
     /\ ~(inside_before /\ FirstTextIsPrefix(cur_line, cur_comments.line)))
    => /\ ~inside_block
       /\ verdict = "code" <=> Read.code

\* C28: a close token met outside any block is tolerated: it is passed
\* over, does not count as code and leaves inside_block false, so the line
\* is code only if other code text stands on it.  Stated for all-ASCII
\* lines that hold no block comment.
C28_StrayCloseTolerated ==
    (/\ Returned
     /\ cur_comments = CComments
     /\ ~inside_before
     /\ ~FirstTextIsPrefix(cur_line, cur_comments.line)
     /\ Read.stray
     /\ Read.blocks = 0)
    => /\ ~inside_block
       /\ verdict = "code" <=> Read.code

\* the tokens of a comment type: its line prefixes and, if it has a block
\* pair, the open and the close token
TokensOf(ct) ==
    IF HasBlock(ct) THEN ct.line \o <<ct.block.open, ct.block.close>>
    ELSE ct.line

\* C29: classified from outside a block, a line whose first non-whitespace
\* text starts with neither a line prefix nor the open nor the close token
\* is code, whatever comment tokens stand later on the line.
C29_LeadingCodeIsCode ==
    (/\ Returned
     /\ HasBlock(cur_comments)
     /\ ~inside_before
     /\ ~IsBlank(cur_line)
     /\ ~FirstTextIsPrefix(cur_line, TokensOf(cur_comments)))
    => verdict = "code"

\* C30: with a comment type that has a block pair, classifying a line of
\* valid text, multi-byte characters included, returns a verdict: the scan
\* never slices the line inside a character.
C30_ClassificationCompletes ==
    (Returned /\ HasBlock(cur_comments)) => verdict \in {"code", "notcode"}

\* the turns of the scan loop the call that has just returned would take
\* in is_block_comment
Turns == is_block_comment(cur_line, inside_before, cur_comments).steps

\* C31: with open and close tokens that are not empty the classification
\* of a line ends: every turn of the scan moves on by at least one
\* position, so the scan takes at most as many turns as the trimmed line
\* is long.
C31_ScanTerminates ==
    (/\ Returned
     /\ HasBlock(cur_comments)
     /\ cur_comments.block.open # <<>>
     /\ cur_comments.block.close # <<>>)
    => /\ verdict \in {"code", "notcode", "panic"}
       /\ Turns <= Len(Trim(cur_line))

C31_Witness ==
    /\ Returned
    /\ cur_comments = CComments
    /\ ~inside_before
    /\ cur_line = <<"c", "/", "*", "*", "/">>
    /\ Turns = 3
    /\ verdict = "code"

\* C32: a call of update_stats that fails part-way does not leave the
\* registry with what the pass had gathered so far: no entry's file set is
\* the files that were counted before the failing one, and no entry's loc
\* is their count.
C32_NoPartialStatsAfterFailure ==
    (PassOver /\ result = "err") =>
        \A k \in 1..Len(entries) :
            MatchingFilesUpTo(FirstFailure - 1, k - 1) # {}
                => /\ entries[k].stats.files
                          # MatchingFilesUpTo(FirstFailure - 1, k - 1)
                   /\ entries[k].stats.loc
                          # SumOfCounts(
                                MatchingFilesUpTo(FirstFailure - 1, k - 1),
                                entries[k].spec.comments)

(***************************************************************************)
(* add_entry and the extension index.                                      *)
(***************************************************************************)
\* the extensions the language handled by the step lists
AskedNow == last_call'.language.extensions[1]

\* C33: add_entry of an entry whose extensions are all unclaimed appends
\* one entry, at the next index, maps each of its extensions to that
\* index, and leaves the entries and the mappings there were as they were.
C33_FreshEntryAppended ==
    [][(/\ last_call'.nth = last_call.nth + 1
        /\ last_call'.valid
        /\ \A i \in 1..Len(AskedNow) : AskedNow[i] \notin DOMAIN map_ext_id)
       => /\ Len(entries') = Len(entries) + 1
          /\ SubSeq(entries', 1, Len(entries)) = entries
          /\ entries'[Len(entries')].spec.name = last_call'.language.name[1]
          /\ entries'[Len(entries')].spec.extensions = AskedNow
          /\ entries'[Len(entries')].stats = EmptyStats
          /\ DOMAIN map_ext_id' =
                DOMAIN map_ext_id
                   \cup { AskedNow[i] : i \in 1..Len(AskedNow) }
          /\ \A e \in DOMAIN map_ext_id : map_ext_id'[e] = map_ext_id[e]
          /\ \A i \in 1..Len(AskedNow) :
                map_ext_id'[AskedNow[i]] = Len(entries)]_vars

\* C35: after any sequence of add_entry calls, accepted or rejected, every
\* extension of the index maps to an entry that exists and that lists the
\* extension, so update_stats never resolves a file to a missing entry or
\* to one that did not claim its extension.
C35_IndexRefersToClaimingEntry ==
    /\ \A e \in DOMAIN map_ext_id :
          /\ map_ext_id[e] < Len(entries)
          /\ \E i \in 1..Len(entries[map_ext_id[e] + 1].spec.extensions) :
                entries[map_ext_id[e] + 1].spec.extensions[i] = e
    /\ reg_pc # "panicked"

(***************************************************************************)
(* What update_stats leaves alone.                                         *)
(***************************************************************************)
\* C34: update_stats changes the stats of the entries and nothing else:
\* the entries are as many and in the same order, each with its name, its
\* extensions and its comment type, and the extension index is the same,
\* after every step of a call that succeeds or fails.
C34_UpdateStatsChangesOnlyStats ==
    [][(reg_pc = "idle" \/ reg_pc = "walking")
         => (/\ map_ext_id' = map_ext_id
             /\ Len(entries') = Len(entries)
             /\ \A k \in 1..Len(entries) :
                   entries'[k].spec = entries[k].spec)]_vars

C34_Witness ==
    /\ reg_pc = "idle" /\ passes > 1 /\ result = "err"
    /\ prev.ok
    /\ Len(entries) = 2
    /\ entries[1].spec = RustSpec /\ entries[2].spec = CSpec
    /\ entries[2].stats.files # {}
    /\ DOMAIN map_ext_id = {"rs", "c", "h"}

\* C36: after an update_stats pass every path of an entry's file set has
\* an extension that the index maps to that entry, and no path is in the
\* file sets of two entries.
C36_FileSetsFollowIndex ==
    (reg_pc = "idle" /\ passes > 0) =>
        \A k \in 1..Len(entries) :
            \A p \in entries[k].stats.files :
                /\ \E e \in DOMAIN map_ext_id :
                      extension(p) = <<e>> /\ map_ext_id[e] = k - 1
                /\ \A j \in 1..Len(entries) :
                      j # k => p \notin entries[j].stats.files

C36_Witness ==
    /\ reg_pc = "idle" /\ passes > 0 /\ result = "ok"
    /\ Len(entries) = 2
    /\ entries[1].spec.name = "C"
    /\ entries[2].spec.name = "Rust"
    /\ get_entry_id(map_ext_id, "txt") = 1
    /\ entries[1].stats.files = {"a.c"}
    /\ entries[2].stats.files = {"n.txt"}
    /\ listing = <<"n.txt", "a.c">>

(***************************************************************************)
(* The two implementations of count_lines.                                 *)
(***************************************************************************)
\* C37: for a comment type with one block pair the count_lines kept in
\* main.rs and the count_lines of logic/analysis.rs return the same count
\* on every file, a file whose line is an empty block comment followed by
\* code included.  Stated for the files of one line, the line classified.
C37_BothCountLinesAgree ==
    (Returned /\ HasBlock(cur_comments)) =>
        main_count_lines("file", <<cur_line>>, cur_comments)
            = count_lines("file", <<cur_line>>, cur_comments)

(***************************************************************************)
(* C38.  The event loop of Model::run stops exactly when a Quit message,  *)
(* a press of q, has been handled.  A turn of the loop makes the running   *)
(* state Done if and only if the event it handled is a press of q; a press *)
(* of u makes it Updating; any other key, any other event and a poll that  *)
(* times out leave it as it was.  The loop is left through its condition   *)
(* only in the state Done, which only a press of q brings about, and once  *)
(* a press of q has been handled, in Running or in Updating, the loop is   *)
(* left.                                                                   *)
(***************************************************************************)
QuitPress == Key("Press", "q")

UpdatePress == Key("Press", "u")

TurnHandled == ui_turns' = ui_turns + 1 /\ ui_pc' = "test"

C38_LoopStopsOnQuit ==
    /\ [][TurnHandled =>
             /\ (running_state' = "Done") <=> (ui_event' = QuitPress)
             /\ (ui_event' = UpdatePress) => (running_state' = "Updating")
             /\ (ui_event' # QuitPress /\ ui_event' # UpdatePress)
                   => (running_state' = running_state)]_vars
    /\ [](running_state = "Done"
            => ui_event = QuitPress /\ current_msg = <<"Quit">>)
    /\ []((ui_pc = "restore" \/ ui_pc = "ok") => running_state = "Done")
    /\ [](ui_pc = "body" => running_state # "Done")
    /\ ((ui_pc = "test" /\ ui_event = QuitPress)
            ~> (ui_pc = "ok" \/ ui_pc = "err"))

C38_Witness ==
    /\ ui_pc = "ok"
    /\ running_state = "Done"
    /\ state_before = "Updating"
    /\ ui_event = QuitPress
    /\ ui_turns = 2
=============================================================================
